---------------------------- MODULE Spec2Model ----------------------------
(***************************************************************************)
(* ConfidentialAuction (contract ConfidentialAuction, src/unnamed/part_005 *)
(* lines 272-707): the auction registry, its lifecycle and the encrypted   *)
(* bookkeeping, one action per external function.  A transaction either    *)
(* applies all its effects or reverts and leaves everything as it was: the *)
(* revert reason of a call is the value of the handler's ...Revert         *)
(* operator ("ok" when it does not revert), and a reverted call is a step  *)
(* that changes nothing.  The events a call emits when it does not revert  *)
(* are the value of the handler's ...Events operator.  acceptedBids is the *)
(* history of the placeBid calls that did not revert, per auction.         *)
(***************************************************************************)
EXTENDS Integers, Sequences, FiniteSets, TLC

VARIABLES owner, auctioneers, platformFeePercent, auctionCounter, auctions,
          now, acceptedBids

\* One instance of the web client's hook useAuctionSystem: its in-flight
\* flags (the refs; the React states isLoading, isCreating and isBidding are
\* set to the same values at the same places), the calls of loadAuctions,
\* createAuction and placeBid that are running, each at one of its awaits,
\* the list of auctions it has loaded, and the reloads it has scheduled.
VARIABLES isLoadingRef, isCreatingRef, isBiddingRef, loadCalls, createCalls,
          bidCalls, hookAuctions, reloadTimers

hookVars == <<isLoadingRef, isCreatingRef, isBiddingRef, loadCalls, createCalls,
              bidCalls, hookAuctions, reloadTimers>>

vars == <<owner, auctioneers, platformFeePercent, auctionCounter, auctions,
          now, acceptedBids>>

storage == <<owner, auctioneers, platformFeePercent, auctionCounter, auctions>>

(***************************************************************************)
(* Bounds of the model.                                                    *)
(***************************************************************************)
\* accepted bids per auction in one behaviour
MaxBids == 2
\* largest plaintext bid amount submitted (euint64 values; only compared)
MaxAmount == 1
\* type(uint256).max, scaled to the model's clock: checked arithmetic of
\* Solidity ^0.8 reverts with Panic(0x11) when a sum exceeds it
Uint256Max == 2000

(***************************************************************************)
(* Program constants.                                                      *)
(***************************************************************************)
EXTENSION_THRESHOLD == 300
InitialPlatformFee == 250
MaxPlatformFee == 1000

(***************************************************************************)
(* Principals and inputs.                                                  *)
(***************************************************************************)
Deployer == "owner"
Principals == {"owner", "alice", "bob"}
This == "contract"
ZeroAddress == "0x0"

\* block.timestamp takes these values, in increasing order
TimePoints == {0, 1, 2, 302, 303, 603}
StartTimes == {1}
EndTimes == {1, 302}
ExtensionTimes == {0, EXTENSION_THRESHOLD, Uint256Max}
Increments == {0, 1}
Amounts == 0..MaxAmount
ReserveAmounts == {1}
AutoBidAmounts == {1}
ReserveFlags == {FALSE}
Titles == {"title"}
AuctionTypes == {"ENGLISH", "DUTCH", "SEALED_BID", "RESERVE"}
InputTypes == {"ENGLISH"}
\* ids createAuction assigns in one behaviour, and the ids calls are
\* addressed to: those and one id that never exists
CreatableIds == {0}
AuctionIds == CreatableIds \cup {Cardinality(CreatableIds)}
\* the same for the registry with two auctions
MultiCreatableIds == {0, 1}
MultiAuctionIds == MultiCreatableIds \cup {Cardinality(MultiCreatableIds)}
FeeInputs == {InitialPlatformFee, MaxPlatformFee + 1}
AuctioneerInputs == {"alice"}
AutoBidders == {"bob"}
\* the bidding scenario: two bidders, three amounts (1.0, 1.2 and 1.5 in
\* tenths), three accepted bids
ScenarioBidders == {"alice", "bob"}
ScenarioAmounts == {10, 12, 15}
ScenarioBidCounts == {0, 1, 2}

PENDING == "PENDING"
ACTIVE == "ACTIVE"
EXTENDED == "EXTENDED"
ENDED == "ENDED"
CANCELLED == "CANCELLED"
AuctionStatus == {PENDING, ACTIVE, EXTENDED, ENDED, CANCELLED}

(***************************************************************************)
(* Revert reasons, and the error kinds the specification groups them in.   *)
(***************************************************************************)
OK == "ok"
ErrOnlyOwner == "Only owner can call this function"
ErrOnlyAuctioneer == "Only authorized auctioneers"
ErrNoAuction == "Auction does not exist"
ErrNotActive == "Auction not active"
ErrNotStarted == "Auction not started"
ErrEnded == "Auction ended"
ErrCreatorBid == "Creator cannot bid"
ErrFee == "Fee cannot exceed 10%"
ErrTimeRange == "Invalid time range"
ErrEndPast == "End time must be in future"
ErrIncrement == "Minimum bid increment must be positive"
ErrAutoBidEnded == "Cannot set auto-bid on ended auction"
ErrNotAuthorized == "Not authorized"
ErrCancelBids == "Cannot cancel auction with bids"
ErrAlreadyEnded == "Auction already ended"
ErrNotFinished == "Auction not finished"
ErrInvalidProof == "InvalidProof"
ErrPanicOverflow == "Panic(0x11)"

NotFound == {ErrNoAuction}
Unauthorized == {ErrOnlyOwner, ErrOnlyAuctioneer, ErrCreatorBid, ErrNotAuthorized}
AuctionNotActive == {ErrNotActive, ErrNotStarted, ErrEnded, ErrAutoBidEnded}
InvalidTimeWindow == {ErrTimeRange, ErrEndPast}
CannotCancelWithBids == {ErrCancelBids}

(***************************************************************************)
(* Ciphertext handles (FHE library): the plaintext a handle encrypts, the  *)
(* principals allowed to decrypt it, and whether it is publicly            *)
(* decryptable.  An operation on ciphertexts returns a fresh handle that   *)
(* nobody is allowed on yet.                                               *)
(***************************************************************************)
NullHandle == [set |-> FALSE, pt |-> 0, acl |-> {}, pub |-> FALSE]
asEuint64(v) == [set |-> TRUE, pt |-> v, acl |-> {}, pub |-> FALSE]
fromExternal(v) == [set |-> TRUE, pt |-> v, acl |-> {}, pub |-> FALSE]
gt(a, b) == a.pt > b.pt
select(c, a, b) == asEuint64(IF c THEN a.pt ELSE b.pt)
allow(h, p) == [h EXCEPT !.acl = @ \cup {p}]
allowThis(h) == allow(h, This)
\* a second call revoking what the first one granted
makePubliclyDecryptable_toggle(h) == [h EXCEPT !.pub = ~@]

makePubliclyDecryptable(h) == [h EXCEPT !.pub = TRUE]

(***************************************************************************)
(* Events.                                                                 *)
(***************************************************************************)
AuctionCreated(id, title, creator, type, start, end) ==
    [name |-> "AuctionCreated", auctionId |-> id, title |-> title,
     creator |-> creator, auctionType |-> type, startTime |-> start, endTime |-> end]
BidPlaced(id, bidder, ts) ==
    [name |-> "BidPlaced", auctionId |-> id, bidder |-> bidder, timestamp |-> ts]
AutoBidSet(id, bidder) ==
    [name |-> "AutoBidSet", auctionId |-> id, bidder |-> bidder]
AuctionExtended(id, newEnd) ==
    [name |-> "AuctionExtended", auctionId |-> id, newEndTime |-> newEnd]
AuctionEnded(id, winner, bid) ==
    [name |-> "AuctionEnded", auctionId |-> id, winner |-> winner, winningBid |-> bid]
AuctionCancelled(id) ==
    [name |-> "AuctionCancelled", auctionId |-> id]


(***************************************************************************)
(* Modifiers.                                                              *)
(***************************************************************************)
onlyOwner(caller) == caller = owner
\* the auctioneer set alone, without the owner
onlyAuctioneer_setOnly(caller) == caller \in auctioneers

onlyAuctioneer(caller) == caller \in auctioneers \/ caller = owner
auctionExists(id) == id < auctionCounter
ExistingIds == {id \in AuctionIds : auctionExists(id)}

\* auctionActive without its status requirement
auctionActive_timeOnly(a) ==
    IF ~(now >= a.startTime) THEN ErrNotStarted
    ELSE IF ~(now <= a.endTime) THEN ErrEnded
    ELSE OK

\* auctionActive without its 'Auction ended' requirement
auctionActive_noDeadline(a) ==
    IF a.status \notin {PENDING, ACTIVE, EXTENDED} THEN ErrNotActive
    ELSE IF ~(now >= a.startTime) THEN ErrNotStarted
    ELSE OK

\* the three require statements of modifier auctionActive, in order
auctionActive(a) ==
    IF a.status \notin {PENDING, ACTIVE, EXTENDED} THEN ErrNotActive
    ELSE IF ~(now >= a.startTime) THEN ErrNotStarted
    ELSE IF ~(now <= a.endTime) THEN ErrEnded
    ELSE OK

\* canBid without its requirement
canBid_anyone(caller, a) == TRUE

canBid(caller, a) == caller /= a.creator

\* management open to every auctioneer
canManage_auctioneer(caller, a) ==
    caller = a.creator \/ caller = owner \/ caller \in auctioneers

canManage(caller, a) == caller = a.creator \/ caller = owner

(***************************************************************************)
(* Checked uint256 arithmetic.                                             *)
(***************************************************************************)
addOverflows(x, y) == x + y > Uint256Max

(***************************************************************************)
(* A transaction that reverts discards every write it made and every event *)
(* it emitted: what it leaves is the value before the call.                *)
(***************************************************************************)
\* a revert that keeps the writes made before it
transaction_keepWrites(err, before, written) == written

transaction(err, before, written) == IF err = OK THEN written ELSE before

(***************************************************************************)
(* createAuction / _initializeAuction.                                     *)
(***************************************************************************)
\* createAuction without its 'Invalid time range' requirement
createAuctionRevert_noRange(caller, start, end, increment, hasReserve, proofOk) ==
    IF ~onlyAuctioneer(caller) THEN ErrOnlyAuctioneer
    ELSE IF ~(end > now) THEN ErrEndPast
    ELSE IF ~(increment > 0) THEN ErrIncrement
    ELSE IF hasReserve /\ ~proofOk THEN ErrInvalidProof
    ELSE OK

\* createAuction without its 'End time must be in future' requirement
createAuctionRevert_noFuture(caller, start, end, increment, hasReserve, proofOk) ==
    IF ~onlyAuctioneer(caller) THEN ErrOnlyAuctioneer
    ELSE IF ~(start < end) THEN ErrTimeRange
    ELSE IF ~(increment > 0) THEN ErrIncrement
    ELSE IF hasReserve /\ ~proofOk THEN ErrInvalidProof
    ELSE OK

createAuctionRevert(caller, start, end, increment, hasReserve, proofOk) ==
    IF ~onlyAuctioneer(caller) THEN ErrOnlyAuctioneer
    ELSE IF ~(start < end) THEN ErrTimeRange
    ELSE IF ~(end > now) THEN ErrEndPast
    ELSE IF ~(increment > 0) THEN ErrIncrement
    ELSE IF hasReserve /\ ~proofOk THEN ErrInvalidProof
    ELSE OK

\* a record that starts in status Active
initializeAuction_active(caller, title, type, start, end, increment, ext, hasReserve, reserve) ==
    [title |-> title,
     description |-> "description",
     itemImageUrl |-> "",
     creator |-> caller,
     auctionType |-> type,
     status |-> ACTIVE,
     startTime |-> start,
     endTime |-> end,
     extensionTime |-> ext,
     minimumBidIncrement |-> increment,
     totalBids |-> 0,
     hasReservePrice |-> hasReserve,
     encryptedReservePrice |->
         IF hasReserve THEN allow(allowThis(fromExternal(reserve)), caller)
         ELSE NullHandle,
     encryptedHighestBid |-> allow(allowThis(asEuint64(0)), caller),
     currentHighestBidder |-> ZeroAddress,
     encryptedBids |-> [p \in Principals |-> NullHandle],
     hasBid |-> [p \in Principals |-> FALSE],
     encryptedMaxAutoBid |-> [p \in Principals |-> NullHandle],
     hasAutoBid |-> [p \in Principals |-> FALSE],
     bidders |-> <<>>]

initializeAuction(caller, title, type, start, end, increment, ext, hasReserve, reserve) ==
    [title |-> title,
     description |-> "description",
     itemImageUrl |-> "",
     creator |-> caller,
     auctionType |-> type,
     status |-> PENDING,
     startTime |-> start,
     endTime |-> end,
     extensionTime |-> ext,
     minimumBidIncrement |-> increment,
     totalBids |-> 0,
     hasReservePrice |-> hasReserve,
     encryptedReservePrice |->
         IF hasReserve THEN allow(allowThis(fromExternal(reserve)), caller)
         ELSE NullHandle,
     encryptedHighestBid |-> allow(allowThis(asEuint64(0)), caller),
     currentHighestBidder |-> ZeroAddress,
     encryptedBids |-> [p \in Principals |-> NullHandle],
     hasBid |-> [p \in Principals |-> FALSE],
     encryptedMaxAutoBid |-> [p \in Principals |-> NullHandle],
     hasAutoBid |-> [p \in Principals |-> FALSE],
     bidders |-> <<>>]

createAuctionEvents(caller, title, type, start, end) ==
    <<AuctionCreated(auctionCounter, title, caller, type, start, end)>>

\* the counter and the registry as createAuction has written them when it
\* returns or reverts: the three require statements precede every write,
\* FHE.fromExternal of the reserve price (l.480) follows auctionCounter++ and
\* the writes of _initializeAuction
createAuctionWrites(err, caller, title, type, start, end, increment, ext, hasReserve, reserve) ==
    LET id == auctionCounter IN
    IF err \in {OK, ErrInvalidProof}
    THEN [counter |-> auctionCounter + 1,
          records |-> [i \in 0..id |->
              IF i = id
              THEN IF err = OK
                   THEN initializeAuction(caller, title, type, start, end,
                                          increment, ext, hasReserve, reserve)
                   ELSE [initializeAuction(caller, title, type, start, end,
                                           increment, ext, FALSE, reserve)
                            EXCEPT !.hasReservePrice = hasReserve]
              ELSE auctions[i]],
          history |-> [i \in 0..id |-> IF i = id THEN <<>> ELSE acceptedBids[i]]]
    ELSE [counter |-> auctionCounter, records |-> auctions, history |-> acceptedBids]

\* the transaction: all of its effects, or a revert that changes nothing
createAuction(caller, title, type, start, end, increment, ext, hasReserve, reserve, proofOk) ==
    LET err == createAuctionRevert(caller, start, end, increment, hasReserve, proofOk)
        written == createAuctionWrites(err, caller, title, type, start, end,
                                       increment, ext, hasReserve, reserve)
    IN  /\ auctionCounter' = transaction(err, auctionCounter, written.counter)
        /\ auctions' = transaction(err, auctions, written.records)
        /\ acceptedBids' = transaction(err, acceptedBids, written.history)
        /\ UNCHANGED <<owner, auctioneers, platformFeePercent, now>>

\* createAuction while the registry holds fewer auctions than the bound
CreateAuction(caller, title, type, start, end, increment, ext, hasReserve, reserve, proofOk) ==
    /\ auctionCounter \in CreatableIds
    /\ createAuction(caller, title, type, start, end, increment, ext,
                     hasReserve, reserve, proofOk)
    /\ UNCHANGED hookVars

\* the same with room for a second auction
CreateAuctionMulti(caller, title, type, start, end, increment, ext, hasReserve, reserve, proofOk) ==
    /\ auctionCounter \in MultiCreatableIds
    /\ createAuction(caller, title, type, start, end, increment, ext,
                     hasReserve, reserve, proofOk)
    /\ UNCHANGED hookVars

(***************************************************************************)
(* placeBid.                                                               *)
(***************************************************************************)
\* the highest bid overwritten by the latest bid
highestAfterBid_latest(highest, bidAmount) ==
    select(TRUE, bidAmount, highest)

\* the oblivious maximum: FHE.select(FHE.gt(bid, highest), bid, highest)
highestAfterBid(highest, bidAmount) ==
    select(gt(bidAmount, highest), bidAmount, highest)

\* the extension policy without its extensionTime > 0 condition
shouldExtend_anyExtension(a) == a.endTime - now <= EXTENSION_THRESHOLD

\* the extension policy with a strict threshold
shouldExtend_strict(a) ==
    a.endTime - now < EXTENSION_THRESHOLD /\ a.extensionTime > 0

\* the condition of the extension policy
shouldExtend(a) ==
    a.endTime - now <= EXTENSION_THRESHOLD /\ a.extensionTime > 0

\* a first bid that leaves a Pending auction Pending
statusAfterFirstBid_pending(st) == st

\* status written before the extension policy runs
statusAfterFirstBid(st) == IF st = PENDING THEN ACTIVE ELSE st

\* a bid that does not extend always writes ACTIVE
statusAfterBid_active(st, extend) == IF extend THEN EXTENDED ELSE ACTIVE

\* status after the whole call: the extension policy writes EXTENDED
statusAfterBid(st, extend) ==
    IF extend THEN EXTENDED ELSE statusAfterFirstBid(st)

\* a first bid pushed at the front of the bidders list
biddersAfterBid_front(a, caller) ==
    IF ~a.hasBid[caller] THEN <<caller>> \o a.bidders ELSE a.bidders

\* every bid appended to the bidders list
biddersAfterBid_always(a, caller) == Append(a.bidders, caller)

\* bidders list: the caller is pushed on a first bid only
biddersAfterBid(a, caller) ==
    IF ~a.hasBid[caller] THEN Append(a.bidders, caller) ELSE a.bidders

placeBidRevert(caller, id, proofOk) ==
    IF ~auctionExists(id) THEN ErrNoAuction
    ELSE LET a == auctions[id] IN
         IF auctionActive(a) /= OK THEN auctionActive(a)
         ELSE IF ~canBid(caller, a) THEN ErrCreatorBid
         ELSE IF ~proofOk THEN ErrInvalidProof
         ELSE IF addOverflows(a.totalBids, 1) THEN ErrPanicOverflow
         ELSE IF shouldExtend(a) /\ addOverflows(a.endTime, a.extensionTime)
              THEN ErrPanicOverflow
         ELSE OK

\* placeBid recording the bidder of a higher bid as currentHighestBidder
placeBidEffect_winner(a, caller, amount) ==
    LET bidAmount == fromExternal(amount)
        highest == highestAfterBid(a.encryptedHighestBid, bidAmount)
        extend == shouldExtend(a)
    IN  [a EXCEPT
           !.status = statusAfterBid(a.status, extend),
           !.encryptedHighestBid = allow(allowThis(highest), a.creator),
           !.currentHighestBidder =
               IF gt(bidAmount, a.encryptedHighestBid) THEN caller ELSE @,
           !.encryptedBids[caller] = allow(allowThis(bidAmount), caller),
           !.hasBid[caller] = TRUE,
           !.bidders = biddersAfterBid(a, caller),
           !.totalBids = a.totalBids + 1,
           !.endTime = IF extend THEN a.endTime + a.extensionTime ELSE a.endTime]

\* placeBid granting the bidder read permission on the running maximum
placeBidEffect_leak(a, caller, amount) ==
    LET bidAmount == fromExternal(amount)
        highest == highestAfterBid(a.encryptedHighestBid, bidAmount)
        extend == shouldExtend(a)
    IN  [a EXCEPT
           !.status = statusAfterBid(a.status, extend),
           !.encryptedHighestBid = allow(allow(allowThis(highest), a.creator), caller),
           !.encryptedBids[caller] = allow(allowThis(bidAmount), caller),
           !.hasBid[caller] = TRUE,
           !.bidders = biddersAfterBid(a, caller),
           !.totalBids = a.totalBids + 1,
           !.endTime = IF extend THEN a.endTime + a.extensionTime ELSE a.endTime]

\* The bidTimestamps mapping (written at l.516) is left out of the record: no
\* function of the contract reads it and the generated getter of auctions
\* does not return mappings; BidPlaced carries the same timestamp.
placeBidEffect(a, caller, amount) ==
    LET bidAmount == fromExternal(amount)
        highest == highestAfterBid(a.encryptedHighestBid, bidAmount)
        extend == shouldExtend(a)
    IN  [a EXCEPT
           !.status = statusAfterBid(a.status, extend),
           !.encryptedHighestBid = allow(allowThis(highest), a.creator),
           !.encryptedBids[caller] = allow(allowThis(bidAmount), caller),
           !.hasBid[caller] = TRUE,
           !.bidders = biddersAfterBid(a, caller),
           !.totalBids = a.totalBids + 1,
           !.endTime = IF extend THEN a.endTime + a.extensionTime ELSE a.endTime]

placeBidEvents(a, caller, id) ==
    (IF shouldExtend(a)
     THEN <<AuctionExtended(id, a.endTime + a.extensionTime)>> ELSE <<>>)
    \o <<BidPlaced(id, caller, now)>>

\* the record as placeBid has written it when FHE.fromExternal is reached:
\* the Pending -> Active assignment (l.497-500) precedes the proof check
placeBidBeforeProof(a) == [a EXCEPT !.status = statusAfterFirstBid(@)]

\* the record as placeBid has written it when it returns or reverts: the
\* modifiers precede every write, an invalid proof reverts after the status
\* assignment, the overflow of endTime += extensionTime (l.534) after every
\* other write
placeBidWrites(a, caller, amount, err) ==
    IF err = OK THEN placeBidEffect(a, caller, amount)
    ELSE IF err = ErrInvalidProof THEN placeBidBeforeProof(a)
    ELSE IF err = ErrPanicOverflow
         THEN [placeBidEffect(a, caller, amount) EXCEPT
                  !.status = statusAfterFirstBid(a.status),
                  !.endTime = a.endTime]
    ELSE a

\* the transaction: all of its effects, or a revert that changes nothing
placeBid(caller, id, amount, proofOk) ==
    LET err == placeBidRevert(caller, id, proofOk) IN
    IF auctionExists(id)
    THEN /\ auctions' = [auctions EXCEPT
                ![id] = transaction(err, @, placeBidWrites(@, caller, amount, err))]
         /\ acceptedBids' = [acceptedBids EXCEPT
                ![id] = transaction(err, @,
                            Append(@, [bidder |-> caller, amount |-> amount]))]
         /\ UNCHANGED <<owner, auctioneers, platformFeePercent, auctionCounter, now>>
    ELSE UNCHANGED vars

\* placeBid while the auction holds one of these numbers of accepted bids
PlaceBidScenario(caller, id, amount, proofOk) ==
    /\ placeBidRevert(caller, id, proofOk) = OK =>
           auctions[id].totalBids \in ScenarioBidCounts
    /\ placeBid(caller, id, amount, proofOk)
    /\ UNCHANGED hookVars

\* placeBid while the auction holds fewer accepted bids than the bound
PlaceBid(caller, id, amount, proofOk) ==
    /\ placeBidRevert(caller, id, proofOk) = OK => auctions[id].totalBids < MaxBids
    /\ placeBid(caller, id, amount, proofOk)
    /\ UNCHANGED hookVars

(***************************************************************************)
(* setAutoBid.                                                             *)
(***************************************************************************)
\* setAutoBid checking the status before the caller
setAutoBidRevert_statusFirst(caller, id, proofOk) ==
    IF ~auctionExists(id) THEN ErrNoAuction
    ELSE LET a == auctions[id] IN
         IF ~(a.status = PENDING \/ a.status = ACTIVE) THEN ErrAutoBidEnded
         ELSE IF ~canBid(caller, a) THEN ErrCreatorBid
         ELSE IF ~proofOk THEN ErrInvalidProof
         ELSE OK

setAutoBidRevert(caller, id, proofOk) ==
    IF ~auctionExists(id) THEN ErrNoAuction
    ELSE LET a == auctions[id] IN
         IF ~canBid(caller, a) THEN ErrCreatorBid
         ELSE IF ~(a.status = PENDING \/ a.status = ACTIVE) THEN ErrAutoBidEnded
         ELSE IF ~proofOk THEN ErrInvalidProof
         ELSE OK

\* a ceiling counted as a bid
setAutoBidEffect_counted(a, caller, amount) ==
    [a EXCEPT
       !.encryptedMaxAutoBid[caller] = allow(allowThis(fromExternal(amount)), caller),
       !.hasAutoBid[caller] = TRUE,
       !.totalBids = @ + 1]

setAutoBidEffect(a, caller, amount) ==
    [a EXCEPT
       !.encryptedMaxAutoBid[caller] = allow(allowThis(fromExternal(amount)), caller),
       !.hasAutoBid[caller] = TRUE]

setAutoBidEvents(caller, id) == <<AutoBidSet(id, caller)>>

SetAutoBid(caller, id, amount, proofOk) ==
    /\ IF setAutoBidRevert(caller, id, proofOk) = OK
       THEN /\ auctions' = [auctions EXCEPT ![id] = setAutoBidEffect(@, caller, amount)]
            /\ UNCHANGED <<owner, auctioneers, platformFeePercent, auctionCounter, now,
                           acceptedBids>>
       ELSE UNCHANGED vars
    /\ UNCHANGED hookVars

(***************************************************************************)
(* endAuction.                                                             *)
(***************************************************************************)
\* endAuction accepting every status but ENDED and CANCELLED
endAuctionRevert_pending(caller, id) ==
    IF ~auctionExists(id) THEN ErrNoAuction
    ELSE LET a == auctions[id] IN
         IF ~canManage(caller, a) THEN ErrNotAuthorized
         ELSE IF a.status = ENDED \/ a.status = CANCELLED THEN ErrNotActive
         ELSE OK

\* endAuction that waits for the end time
endAuctionRevert_expired(caller, id) ==
    IF ~auctionExists(id) THEN ErrNoAuction
    ELSE LET a == auctions[id] IN
         IF ~canManage(caller, a) THEN ErrNotAuthorized
         ELSE IF ~(a.status = ACTIVE \/ a.status = EXTENDED) THEN ErrNotActive
         ELSE IF ~(now > a.endTime) THEN ErrNotFinished
         ELSE OK

endAuctionRevert(caller, id) ==
    IF ~auctionExists(id) THEN ErrNoAuction
    ELSE LET a == auctions[id] IN
         IF ~canManage(caller, a) THEN ErrNotAuthorized
         ELSE IF ~(a.status = ACTIVE \/ a.status = EXTENDED) THEN ErrNotActive
         ELSE OK

endAuctionEffect(a) == [a EXCEPT !.status = ENDED]

endAuctionEvents(a, id) == <<AuctionEnded(id, a.currentHighestBidder, 0)>>

\* endAuction ending every auction of the registry
EndAuction_all(caller, id) ==
    /\ IF endAuctionRevert(caller, id) = OK
       THEN /\ auctions' = [i \in DOMAIN auctions |-> endAuctionEffect(auctions[i])]
            /\ UNCHANGED <<owner, auctioneers, platformFeePercent, auctionCounter, now,
                           acceptedBids>>
       ELSE UNCHANGED vars
    /\ UNCHANGED hookVars

EndAuction(caller, id) ==
    /\ IF endAuctionRevert(caller, id) = OK
       THEN /\ auctions' = [auctions EXCEPT ![id] = endAuctionEffect(@)]
            /\ UNCHANGED <<owner, auctioneers, platformFeePercent, auctionCounter, now,
                           acceptedBids>>
       ELSE UNCHANGED vars
    /\ UNCHANGED hookVars

(***************************************************************************)
(* cancelAuction.                                                          *)
(***************************************************************************)
\* cancelAuction without the totalBids requirement
cancelAuctionRevert_noBids(caller, id) ==
    IF ~auctionExists(id) THEN ErrNoAuction
    ELSE LET a == auctions[id] IN
         IF ~canManage(caller, a) THEN ErrNotAuthorized
         ELSE IF ~(a.status /= ENDED) THEN ErrAlreadyEnded
         ELSE OK

cancelAuctionRevert(caller, id) ==
    IF ~auctionExists(id) THEN ErrNoAuction
    ELSE LET a == auctions[id] IN
         IF ~canManage(caller, a) THEN ErrNotAuthorized
         ELSE IF ~(a.totalBids = 0) THEN ErrCancelBids
         ELSE IF ~(a.status /= ENDED) THEN ErrAlreadyEnded
         ELSE OK

cancelAuctionEffect(a) == [a EXCEPT !.status = CANCELLED]

cancelAuctionEvents(id) == <<AuctionCancelled(id)>>

CancelAuction(caller, id) ==
    /\ IF cancelAuctionRevert(caller, id) = OK
       THEN /\ auctions' = [auctions EXCEPT ![id] = cancelAuctionEffect(@)]
            /\ UNCHANGED <<owner, auctioneers, platformFeePercent, auctionCounter, now,
                           acceptedBids>>
       ELSE UNCHANGED vars
    /\ UNCHANGED hookVars

(***************************************************************************)
(* revealResults.                                                          *)
(***************************************************************************)
\* revealResults accepting the instant endTime itself as finished
revealResultsRevert_atEnd(caller, id) ==
    IF ~auctionExists(id) THEN ErrNoAuction
    ELSE LET a == auctions[id] IN
         IF ~(a.status = ENDED \/ now >= a.endTime) THEN ErrNotFinished
         ELSE IF ~canManage(caller, a) THEN ErrNotAuthorized
         ELSE OK

\* revealResults without its 'Auction not finished' requirement
revealResultsRevert_anytime(caller, id) ==
    IF ~auctionExists(id) THEN ErrNoAuction
    ELSE LET a == auctions[id] IN
         IF ~canManage(caller, a) THEN ErrNotAuthorized
         ELSE OK

revealResultsRevert(caller, id) ==
    IF ~auctionExists(id) THEN ErrNoAuction
    ELSE LET a == auctions[id] IN
         IF ~(a.status = ENDED \/ now > a.endTime) THEN ErrNotFinished
         ELSE IF ~canManage(caller, a) THEN ErrNotAuthorized
         ELSE OK

\* revealResults publishing the reserve price handle whatever the flag
revealResultsEffect_always(a) ==
    [a EXCEPT
       !.encryptedHighestBid = makePubliclyDecryptable(@),
       !.encryptedReservePrice = makePubliclyDecryptable(@)]

revealResultsEffect(a) ==
    [a EXCEPT
       !.encryptedHighestBid = makePubliclyDecryptable(@),
       !.encryptedReservePrice =
           IF a.hasReservePrice THEN makePubliclyDecryptable(@) ELSE @]

RevealResults(caller, id) ==
    /\ IF revealResultsRevert(caller, id) = OK
       THEN /\ auctions' = [auctions EXCEPT ![id] = revealResultsEffect(@)]
            /\ UNCHANGED <<owner, auctioneers, platformFeePercent, auctionCounter, now,
                           acceptedBids>>
       ELSE UNCHANGED vars
    /\ UNCHANGED hookVars

(***************************************************************************)
(* setAuctioneer / setPlatformFee.                                         *)
(***************************************************************************)
setAuctioneerRevert(caller) ==
    IF ~onlyOwner(caller) THEN ErrOnlyOwner ELSE OK

SetAuctioneer(caller, auctioneer, isAuctioneer) ==
    /\ IF setAuctioneerRevert(caller) = OK
       THEN /\ auctioneers' = IF isAuctioneer THEN auctioneers \cup {auctioneer}
                                              ELSE auctioneers \ {auctioneer}
            /\ UNCHANGED <<owner, platformFeePercent, auctionCounter, auctions, now,
                           acceptedBids>>
       ELSE UNCHANGED vars
    /\ UNCHANGED hookVars

\* setPlatformFee without its upper limit
setPlatformFeeRevert_noLimit(caller, feePercent) ==
    IF ~onlyOwner(caller) THEN ErrOnlyOwner ELSE OK

setPlatformFeeRevert(caller, feePercent) ==
    IF ~onlyOwner(caller) THEN ErrOnlyOwner
    ELSE IF ~(feePercent <= MaxPlatformFee) THEN ErrFee
    ELSE OK

SetPlatformFee(caller, feePercent) ==
    /\ IF setPlatformFeeRevert(caller, feePercent) = OK
       THEN /\ platformFeePercent' = feePercent
            /\ UNCHANGED <<owner, auctioneers, auctionCounter, auctions, now, acceptedBids>>
       ELSE UNCHANGED vars
    /\ UNCHANGED hookVars

(***************************************************************************)
(* View functions.                                                         *)
(***************************************************************************)
getTotalAuctions == auctionCounter

\* a declared view function that skips the auctionExists modifier
getterRevert_unchecked(id) == OK

\* getAuctionInfo, getEncryptedHighestBid, getUserBid, hasBidder,
\* getAuctionBidders and isAuctionEnded all carry auctionExists and have no
\* other requirement
getterRevert(id) == IF ~auctionExists(id) THEN ErrNoAuction ELSE OK

\* the members the accessor of a public mapping of structs returns: all but
\* the mappings and the array
AccessorFields ==
    {"title", "description", "itemImageUrl", "creator", "auctionType", "status",
     "startTime", "endTime", "extensionTime", "minimumBidIncrement", "totalBids",
     "hasReservePrice", "encryptedReservePrice", "encryptedHighestBid",
     "currentHighestBidder"}

\* the value of a storage slot that was never written (the first member of
\* each enumeration, zero, the empty string, the null handle)
UnwrittenAuction ==
    [title |-> "", description |-> "", itemImageUrl |-> "", creator |-> ZeroAddress,
     auctionType |-> "ENGLISH", status |-> PENDING, startTime |-> 0, endTime |-> 0,
     extensionTime |-> 0, minimumBidIncrement |-> 0, totalBids |-> 0,
     hasReservePrice |-> FALSE, encryptedReservePrice |-> NullHandle,
     encryptedHighestBid |-> NullHandle, currentHighestBidder |-> ZeroAddress]

\* the compiler-generated accessor auctions(id) of the public mapping: it
\* has no modifier, never reverts, and reads the slot whatever the id
auctionsAccessorRevert(id) == OK

auctionsAccessor(id) ==
    IF id \in DOMAIN auctions
    THEN [f \in AccessorFields |-> auctions[id][f]]
    ELSE [f \in AccessorFields |-> UnwrittenAuction[f]]
\* isAuctionEnded counting the instant endTime itself as ended
isAuctionEnded_atEnd(id) ==
    LET a == auctions[id] IN
    a.status = ENDED \/ a.status = CANCELLED \/ now >= a.endTime

isAuctionEnded(id) ==
    LET a == auctions[id] IN
    a.status = ENDED \/ a.status = CANCELLED \/ now > a.endTime

(***************************************************************************)
(* The web client: useAuctionSystem (the hook) and AuctionCard.            *)
(***************************************************************************)
\* useAuctionSystem.revealResults submits the revealResults transaction
\* only for a user who is not the creator of the auction
hookRevealSubmits(user, id) == auctions[id].creator /= user

\* the outcome of the on-chain part of useAuctionSystem.revealResults:
\* getAuctionInfo, then the transaction if one is submitted; a revert
\* makes the call throw before the decryption
hookRevealResultsRevert(user, id) ==
    IF getterRevert(id) /= OK THEN getterRevert(id)
    ELSE IF hookRevealSubmits(user, id) THEN revealResultsRevert(user, id)
    ELSE OK

\* AuctionCard, for the record and the time it is rendered with: the
\* conditions under which it shows its buttons
isActive(auction) == auction.status = ACTIVE \/ auction.status = EXTENDED
isEnded(auction) ==
    auction.status = ENDED \/ auction.status = CANCELLED \/ now > auction.endTime
isUpcoming(auction) == auction.status = PENDING /\ now < auction.startTime
isPendingButStarted(auction) ==
    auction.status = PENDING /\ now >= auction.startTime /\ now <= auction.endTime
isCreator(auction, userAddress) == auction.creator = userAddress
cardCanBid(auction, userAddress) ==
    (isActive(auction) \/ isPendingButStarted(auction)) /\ ~isCreator(auction, userAddress)
canViewResults(auction) == isEnded(auction)

\* the hook when the component mounts: nothing loaded, nothing running
hookInit ==
    /\ isLoadingRef = FALSE
    /\ isCreatingRef = FALSE
    /\ isBiddingRef = FALSE
    /\ loadCalls = <<>>
    /\ createCalls = <<>>
    /\ bidCalls = <<>>
    /\ hookAuctions = <<>>
    /\ reloadTimers = 0

\* the account connected to the hook, and what its user enters
ethersSigner == "alice"
HookBidAmounts == {1}
HookReserveFlags == BOOLEAN
\* calls of one function issued while earlier ones are still running, and
\* reloads scheduled at the same time
CallSlots == {1, 2}
ReloadSlots == {1}

RemoveAt(seq, k) == SubSeq(seq, 1, k - 1) \o SubSeq(seq, k + 1, Len(seq))

\* what loadAuctions keeps of getAuctionInfo(i)
getAuctionInfo(id) ==
    LET a == auctions[id] IN
    [id |-> id, title |-> a.title, description |-> a.description,
     itemImageUrl |-> a.itemImageUrl, creator |-> a.creator,
     auctionType |-> a.auctionType, status |-> a.status, startTime |-> a.startTime,
     endTime |-> a.endTime, minimumBidIncrement |-> a.minimumBidIncrement,
     totalBids |-> a.totalBids, hasReservePrice |-> a.hasReservePrice]

\* loadAuctions: the early return on its flag; otherwise the flag is set and
\* the call waits for getTotalAuctions
hookLoadReturns == isLoadingRef

hookLoadAuctions ==
    IF hookLoadReturns
    THEN UNCHANGED <<isLoadingRef, loadCalls>>
    ELSE /\ isLoadingRef' = TRUE
         /\ loadCalls' = Append(loadCalls, [pc |-> "total", total |-> 0])

\* loadAuctions called by the effect on mount or by the user (refreshAuctions)
HookLoadAuctions ==
    /\ Len(loadCalls) < Cardinality(CallSlots)
    /\ hookLoadAuctions
    /\ UNCHANGED <<vars, isCreatingRef, isBiddingRef, createCalls, bidCalls,
                   hookAuctions, reloadTimers>>

\* a reload scheduled by setTimeout after a mined transaction
HookReloadTimer ==
    /\ reloadTimers > 0
    /\ Len(loadCalls) < Cardinality(CallSlots)
    /\ reloadTimers' = reloadTimers - 1
    /\ hookLoadAuctions
    /\ UNCHANGED <<vars, isCreatingRef, isBiddingRef, createCalls, bidCalls,
                   hookAuctions>>

\* getTotalAuctions answers, or fails: catch and finally
HookLoadTotal(k, ok) ==
    /\ k \in DOMAIN loadCalls
    /\ loadCalls[k].pc = "total"
    /\ IF ok
       THEN /\ loadCalls' = [loadCalls EXCEPT ![k] =
                                [pc |-> "infos", total |-> getTotalAuctions]]
            /\ UNCHANGED isLoadingRef
       ELSE /\ loadCalls' = RemoveAt(loadCalls, k)
            /\ isLoadingRef' = FALSE
    /\ UNCHANGED <<vars, isCreatingRef, isBiddingRef, createCalls, bidCalls,
                   hookAuctions, reloadTimers>>

\* every getAuctionInfo has answered and the list is stored, or one fails;
\* in both cases the finally block clears the flag
HookLoadInfos(k, ok) ==
    /\ k \in DOMAIN loadCalls
    /\ loadCalls[k].pc = "infos"
    /\ hookAuctions' = IF ok
                       THEN [i \in 1..loadCalls[k].total |-> getAuctionInfo(i - 1)]
                       ELSE hookAuctions
    /\ loadCalls' = RemoveAt(loadCalls, k)
    /\ isLoadingRef' = FALSE
    /\ UNCHANGED <<vars, isCreatingRef, isBiddingRef, createCalls, bidCalls,
                   reloadTimers>>

\* createAuction of the hook: the early return on its flag; otherwise the
\* flag is set and the call waits for the encryption of the reserve price
hookCreateReturns == isCreatingRef

HookCreateAuction(startTime, endTime, hasReservePrice) ==
    /\ Len(createCalls) < Cardinality(CallSlots)
    /\ IF hookCreateReturns
       THEN UNCHANGED <<isCreatingRef, createCalls>>
       ELSE /\ isCreatingRef' = TRUE
            /\ createCalls' = Append(createCalls,
                   [pc |-> "encrypt", startTime |-> startTime, endTime |-> endTime,
                    hasReservePrice |-> hasReservePrice])
    /\ UNCHANGED <<vars, isLoadingRef, isBiddingRef, loadCalls, bidCalls,
                   hookAuctions, reloadTimers>>

\* input.encrypt() answers, or throws: catch and finally
HookCreateEncrypted(k, ok) ==
    /\ k \in DOMAIN createCalls
    /\ createCalls[k].pc = "encrypt"
    /\ IF ok
       THEN /\ createCalls' = [createCalls EXCEPT ![k].pc = "submit"]
            /\ UNCHANGED isCreatingRef
       ELSE /\ createCalls' = RemoveAt(createCalls, k)
            /\ isCreatingRef' = FALSE
    /\ UNCHANGED <<vars, isLoadingRef, isBiddingRef, loadCalls, bidCalls,
                   hookAuctions, reloadTimers>>

\* contract.createAuction: the transaction is executed, or it reverts or is
\* refused (ok false) and the call throws: catch and finally
HookCreateSubmitted(k, ok) ==
    /\ k \in DOMAIN createCalls
    /\ createCalls[k].pc = "submit"
    /\ LET start == createCalls[k].startTime
           end == createCalls[k].endTime
           hasReserve == createCalls[k].hasReservePrice
       IN  IF ok /\ createAuctionRevert(ethersSigner, start, end, 1, hasReserve, TRUE) = OK
           THEN /\ auctionCounter \in CreatableIds
                /\ createAuction(ethersSigner, "title", "ENGLISH", start, end, 1, 0,
                                 hasReserve, 1, TRUE)
                /\ createCalls' = [createCalls EXCEPT ![k].pc = "wait"]
                /\ UNCHANGED isCreatingRef
           ELSE /\ createCalls' = RemoveAt(createCalls, k)
                /\ isCreatingRef' = FALSE
                /\ UNCHANGED vars
    /\ UNCHANGED <<isLoadingRef, isBiddingRef, loadCalls, bidCalls, hookAuctions,
                   reloadTimers>>

\* tx.wait() answers and a reload is scheduled, or it throws; the finally
\* block clears the flag
HookCreateMined(k, ok) ==
    /\ k \in DOMAIN createCalls
    /\ createCalls[k].pc = "wait"
    /\ ok => reloadTimers < Cardinality(ReloadSlots)
    /\ reloadTimers' = IF ok THEN reloadTimers + 1 ELSE reloadTimers
    /\ createCalls' = RemoveAt(createCalls, k)
    /\ isCreatingRef' = FALSE
    /\ UNCHANGED <<vars, isLoadingRef, isBiddingRef, loadCalls, bidCalls, hookAuctions>>

\* a placeBid that never returns early
hookPlaceBidReturns_never == FALSE

\* placeBid of the hook: the early return on its flag
hookPlaceBidReturns == isBiddingRef

\* otherwise the flag is set and the call waits for the encryption of the bid
HookPlaceBid(auctionId, bidAmount) ==
    /\ Len(bidCalls) < Cardinality(CallSlots)
    /\ IF hookPlaceBidReturns
       THEN UNCHANGED <<isBiddingRef, bidCalls>>
       ELSE /\ isBiddingRef' = TRUE
            /\ bidCalls' = Append(bidCalls,
                   [pc |-> "encrypt", auctionId |-> auctionId, bidAmount |-> bidAmount])
    /\ UNCHANGED <<vars, isLoadingRef, isCreatingRef, loadCalls, createCalls,
                   hookAuctions, reloadTimers>>

\* input.encrypt() answers, or throws: catch and finally
HookPlaceBidEncrypted(k, ok) ==
    /\ k \in DOMAIN bidCalls
    /\ bidCalls[k].pc = "encrypt"
    /\ IF ok
       THEN /\ bidCalls' = [bidCalls EXCEPT ![k].pc = "submit"]
            /\ UNCHANGED isBiddingRef
       ELSE /\ bidCalls' = RemoveAt(bidCalls, k)
            /\ isBiddingRef' = FALSE
    /\ UNCHANGED <<vars, isLoadingRef, isCreatingRef, loadCalls, createCalls,
                   hookAuctions, reloadTimers>>

\* contract.placeBid: the transaction is executed, or it reverts or is
\* refused (ok false) and the call throws: catch and finally
HookPlaceBidSubmitted(k, ok) ==
    /\ k \in DOMAIN bidCalls
    /\ bidCalls[k].pc = "submit"
    /\ LET id == bidCalls[k].auctionId IN
       IF ok /\ placeBidRevert(ethersSigner, id, TRUE) = OK
       THEN /\ auctions[id].totalBids < MaxBids
            /\ placeBid(ethersSigner, id, bidCalls[k].bidAmount, TRUE)
            /\ bidCalls' = [bidCalls EXCEPT ![k].pc = "wait"]
            /\ UNCHANGED isBiddingRef
       ELSE /\ bidCalls' = RemoveAt(bidCalls, k)
            /\ isBiddingRef' = FALSE
            /\ UNCHANGED vars
    /\ UNCHANGED <<isLoadingRef, isCreatingRef, loadCalls, createCalls, hookAuctions,
                   reloadTimers>>

\* tx.wait() answers and a reload is scheduled, or it throws; the finally
\* block clears the flag
HookPlaceBidMined(k, ok) ==
    /\ k \in DOMAIN bidCalls
    /\ bidCalls[k].pc = "wait"
    /\ ok => reloadTimers < Cardinality(ReloadSlots)
    /\ reloadTimers' = IF ok THEN reloadTimers + 1 ELSE reloadTimers
    /\ bidCalls' = RemoveAt(bidCalls, k)
    /\ isBiddingRef' = FALSE
    /\ UNCHANGED <<vars, isLoadingRef, isCreatingRef, loadCalls, createCalls, hookAuctions>>

(***************************************************************************)
(* The ledger's clock: block.timestamp never decreases.                    *)
(***************************************************************************)
\* a clock that ends the auctions whose endTime it passes
Tick_expire ==
    /\ \E t \in TimePoints :
           /\ t > now
           /\ now' = t
           /\ auctions' = [i \in DOMAIN auctions |->
                  IF t > auctions[i].endTime
                         /\ auctions[i].status \in {PENDING, ACTIVE, EXTENDED}
                  THEN [auctions[i] EXCEPT !.status = ENDED]
                  ELSE auctions[i]]
    /\ UNCHANGED <<owner, auctioneers, platformFeePercent, auctionCounter,
                   acceptedBids>>
    /\ UNCHANGED hookVars

Tick ==
    /\ \E t \in TimePoints : t > now /\ now' = t
    /\ UNCHANGED <<owner, auctioneers, platformFeePercent, auctionCounter, auctions,
                   acceptedBids>>
    /\ UNCHANGED hookVars

(***************************************************************************)
(* The contract after its constructor ran, and its transactions.           *)
(***************************************************************************)
Init ==
    /\ owner = Deployer
    /\ auctioneers = {Deployer}
    /\ platformFeePercent = InitialPlatformFee
    /\ auctionCounter = 0
    /\ auctions = <<>>
    /\ acceptedBids = <<>>
    /\ now = 0
    /\ hookInit

Next ==
    \/ \E caller \in Principals, title \in Titles, type \in InputTypes,
          start \in StartTimes, end \in EndTimes, increment \in Increments,
          ext \in ExtensionTimes, hasReserve \in ReserveFlags,
          reserve \in ReserveAmounts, proofOk \in BOOLEAN :
          CreateAuction(caller, title, type, start, end, increment, ext,
                        hasReserve, reserve, proofOk)
    \/ \E caller \in Principals, id \in AuctionIds, amount \in Amounts,
          proofOk \in BOOLEAN : PlaceBid(caller, id, amount, proofOk)
    \/ \E caller \in AutoBidders, id \in AuctionIds, amount \in AutoBidAmounts,
          proofOk \in BOOLEAN : SetAutoBid(caller, id, amount, proofOk)
    \/ \E caller \in Principals, id \in AuctionIds : EndAuction(caller, id)
    \/ \E caller \in Principals, id \in AuctionIds : CancelAuction(caller, id)
    \/ \E caller \in Principals, id \in AuctionIds : RevealResults(caller, id)
    \/ \E caller \in Principals, auctioneer \in AuctioneerInputs,
          isAuctioneer \in BOOLEAN : SetAuctioneer(caller, auctioneer, isAuctioneer)
    \/ \E caller \in Principals, feePercent \in FeeInputs :
          SetPlatformFee(caller, feePercent)
    \/ Tick

Spec == Init /\ [][Next]_vars

(***************************************************************************)
(* The same transactions with auctions created with and without a reserve  *)
(* price (one extension time, to keep the state space small).              *)
(***************************************************************************)
ReserveExtensionTimes == {EXTENSION_THRESHOLD}
ReserveFlagInputs == BOOLEAN

NextReserve ==
    \/ \E caller \in Principals, title \in Titles, type \in InputTypes,
          start \in StartTimes, end \in EndTimes, increment \in Increments,
          ext \in ReserveExtensionTimes, hasReserve \in ReserveFlagInputs,
          reserve \in ReserveAmounts, proofOk \in BOOLEAN :
          CreateAuction(caller, title, type, start, end, increment, ext,
                        hasReserve, reserve, proofOk)
    \/ \E caller \in Principals, id \in AuctionIds, amount \in Amounts,
          proofOk \in BOOLEAN : PlaceBid(caller, id, amount, proofOk)
    \/ \E caller \in AutoBidders, id \in AuctionIds, amount \in AutoBidAmounts,
          proofOk \in BOOLEAN : SetAutoBid(caller, id, amount, proofOk)
    \/ \E caller \in Principals, id \in AuctionIds : EndAuction(caller, id)
    \/ \E caller \in Principals, id \in AuctionIds : CancelAuction(caller, id)
    \/ \E caller \in Principals, id \in AuctionIds : RevealResults(caller, id)
    \/ \E caller \in Principals, auctioneer \in AuctioneerInputs,
          isAuctioneer \in BOOLEAN : SetAuctioneer(caller, auctioneer, isAuctioneer)
    \/ \E caller \in Principals, feePercent \in FeeInputs :
          SetPlatformFee(caller, feePercent)
    \/ Tick

SpecReserve == Init /\ [][NextReserve]_vars

(***************************************************************************)
(* The registry with up to two auctions: one bidder, one amount and no     *)
(* extension time, to keep the state space small.                          *)
(***************************************************************************)
MultiExtensionTimes == {0}
MultiEndTimes == {302}
MultiBidders == {"bob"}
MultiAmounts == {1}

NextMulti ==
    \/ \E caller \in Principals, title \in Titles, type \in InputTypes,
          start \in StartTimes, end \in MultiEndTimes, increment \in Increments,
          ext \in MultiExtensionTimes, hasReserve \in ReserveFlags,
          reserve \in ReserveAmounts, proofOk \in BOOLEAN :
          CreateAuctionMulti(caller, title, type, start, end, increment, ext,
                             hasReserve, reserve, proofOk)
    \/ \E caller \in MultiBidders, id \in MultiAuctionIds, amount \in MultiAmounts,
          proofOk \in BOOLEAN : PlaceBid(caller, id, amount, proofOk)
    \/ \E caller \in AutoBidders, id \in MultiAuctionIds, amount \in AutoBidAmounts,
          proofOk \in BOOLEAN : SetAutoBid(caller, id, amount, proofOk)
    \/ \E caller \in Principals, id \in MultiAuctionIds : EndAuction(caller, id)
    \/ \E caller \in Principals, id \in MultiAuctionIds : CancelAuction(caller, id)
    \/ \E caller \in Principals, id \in MultiAuctionIds : RevealResults(caller, id)
    \/ \E caller \in Principals, auctioneer \in AuctioneerInputs,
          isAuctioneer \in BOOLEAN : SetAuctioneer(caller, auctioneer, isAuctioneer)
    \/ \E caller \in Principals, feePercent \in FeeInputs :
          SetPlatformFee(caller, feePercent)
    \/ Tick

SpecMulti == Init /\ [][NextMulti]_vars

(***************************************************************************)
(* The administrative functions with more inputs (the owner's own          *)
(* auctioneer flag, several fees) around one auction with one bidder.      *)
(***************************************************************************)
AdminAuctioneerInputs == {"owner", "alice"}
AdminFeeInputs == {0, MaxPlatformFee, MaxPlatformFee + 1}

NextAdmin ==
    \/ \E caller \in Principals, title \in Titles, type \in InputTypes,
          start \in StartTimes, end \in MultiEndTimes, increment \in Increments,
          ext \in MultiExtensionTimes, hasReserve \in ReserveFlags,
          reserve \in ReserveAmounts, proofOk \in BOOLEAN :
          CreateAuction(caller, title, type, start, end, increment, ext,
                        hasReserve, reserve, proofOk)
    \/ \E caller \in MultiBidders, id \in AuctionIds, amount \in MultiAmounts,
          proofOk \in BOOLEAN : PlaceBid(caller, id, amount, proofOk)
    \/ \E caller \in AutoBidders, id \in AuctionIds, amount \in AutoBidAmounts,
          proofOk \in BOOLEAN : SetAutoBid(caller, id, amount, proofOk)
    \/ \E caller \in Principals, id \in AuctionIds : EndAuction(caller, id)
    \/ \E caller \in Principals, id \in AuctionIds : CancelAuction(caller, id)
    \/ \E caller \in Principals, id \in AuctionIds : RevealResults(caller, id)
    \/ \E caller \in Principals, auctioneer \in AdminAuctioneerInputs,
          isAuctioneer \in BOOLEAN : SetAuctioneer(caller, auctioneer, isAuctioneer)
    \/ \E caller \in Principals, feePercent \in AdminFeeInputs :
          SetPlatformFee(caller, feePercent)
    \/ Tick

SpecAdmin == Init /\ [][NextAdmin]_vars

(***************************************************************************)
(* One auction without extension, two bidders who place up to three bids   *)
(* of three different amounts, and setAutoBid called by everybody.         *)
(***************************************************************************)
NextBids ==
    \/ \E caller \in Principals, title \in Titles, type \in InputTypes,
          start \in StartTimes, end \in MultiEndTimes, increment \in Increments,
          ext \in MultiExtensionTimes, hasReserve \in ReserveFlags,
          reserve \in ReserveAmounts, proofOk \in BOOLEAN :
          CreateAuction(caller, title, type, start, end, increment, ext,
                        hasReserve, reserve, proofOk)
    \/ \E caller \in ScenarioBidders, id \in AuctionIds, amount \in ScenarioAmounts,
          proofOk \in BOOLEAN : PlaceBidScenario(caller, id, amount, proofOk)
    \/ \E caller \in Principals, id \in AuctionIds, amount \in AutoBidAmounts,
          proofOk \in BOOLEAN : SetAutoBid(caller, id, amount, proofOk)
    \/ \E caller \in Principals, id \in AuctionIds : EndAuction(caller, id)
    \/ \E caller \in Principals, id \in AuctionIds : CancelAuction(caller, id)
    \/ \E caller \in Principals, id \in AuctionIds : RevealResults(caller, id)
    \/ \E caller \in Principals, auctioneer \in AuctioneerInputs,
          isAuctioneer \in BOOLEAN : SetAuctioneer(caller, auctioneer, isAuctioneer)
    \/ \E caller \in Principals, feePercent \in FeeInputs :
          SetPlatformFee(caller, feePercent)
    \/ Tick

SpecBids == Init /\ [][NextBids]_vars

(***************************************************************************)
(* The contract together with one instance of the hook: the connected      *)
(* account works through the hook, everybody else calls the contract.      *)
(***************************************************************************)
allVars == <<vars, hookVars>>

NextHook ==
    \/ HookLoadAuctions
    \/ HookReloadTimer
    \/ \E k \in CallSlots, ok \in BOOLEAN : HookLoadTotal(k, ok)
    \/ \E k \in CallSlots, ok \in BOOLEAN : HookLoadInfos(k, ok)
    \/ \E startTime \in StartTimes, endTime \in MultiEndTimes,
          hasReservePrice \in HookReserveFlags :
          HookCreateAuction(startTime, endTime, hasReservePrice)
    \/ \E k \in CallSlots, ok \in BOOLEAN : HookCreateEncrypted(k, ok)
    \/ \E k \in CallSlots, ok \in BOOLEAN : HookCreateSubmitted(k, ok)
    \/ \E k \in CallSlots, ok \in BOOLEAN : HookCreateMined(k, ok)
    \/ \E auctionId \in AuctionIds, bidAmount \in HookBidAmounts :
          HookPlaceBid(auctionId, bidAmount)
    \/ \E k \in CallSlots, ok \in BOOLEAN : HookPlaceBidEncrypted(k, ok)
    \/ \E k \in CallSlots, ok \in BOOLEAN : HookPlaceBidSubmitted(k, ok)
    \/ \E k \in CallSlots, ok \in BOOLEAN : HookPlaceBidMined(k, ok)
    \/ \E caller \in Principals, title \in Titles, type \in InputTypes,
          start \in StartTimes, end \in MultiEndTimes, increment \in Increments,
          ext \in MultiExtensionTimes, hasReserve \in ReserveFlags,
          reserve \in ReserveAmounts, proofOk \in BOOLEAN :
          CreateAuction(caller, title, type, start, end, increment, ext,
                        hasReserve, reserve, proofOk)
    \/ \E caller \in Principals, id \in AuctionIds : EndAuction(caller, id)
    \/ \E caller \in Principals, id \in AuctionIds : CancelAuction(caller, id)
    \/ \E caller \in Principals, auctioneer \in AuctioneerInputs,
          isAuctioneer \in BOOLEAN : SetAuctioneer(caller, auctioneer, isAuctioneer)
    \/ Tick

SpecHook == Init /\ [][NextHook]_allVars

(***************************************************************************)
(* Properties.                                                             *)
(***************************************************************************)
MaxOf(S) == CHOOSE m \in S : \A x \in S : x <= m
AcceptedAmounts(id) == {acceptedBids[id][k].amount : k \in 1..Len(acceptedBids[id])}
AcceptedBidders(id) == {acceptedBids[id][k].bidder : k \in 1..Len(acceptedBids[id])}
Elements(seq) == {seq[k] : k \in 1..Len(seq)}
BidStatuses == {PENDING, ACTIVE, EXTENDED}
InWindow(a) == a.startTime <= now /\ now <= a.endTime

\* C1: after every accepted placeBid the plaintext of encryptedHighestBid is
\* the maximum of 0 and all the plaintext amounts accepted so far on that
\* auction, whatever the bidders and the order of the bids.
C1_HighestIsMax ==
    \A id \in ExistingIds :
        auctions[id].encryptedHighestBid.pt = MaxOf({0} \cup AcceptedAmounts(id))

\* a lower bid accepted after a higher one
C1_Witness ==
    \E id \in ExistingIds :
        /\ Len(acceptedBids[id]) = 2
        /\ acceptedBids[id][1].amount > acceptedBids[id][2].amount
        /\ auctions[id].encryptedHighestBid.pt = acceptedBids[id][1].amount

\* the four stated preconditions of placeBid
C2_Preconditions(caller, id) ==
    /\ id < auctionCounter
    /\ caller /= auctions[id].creator
    /\ auctions[id].status \in BidStatuses
    /\ InWindow(auctions[id])

\* C2: placeBid with a valid proof succeeds iff the auction exists, the
\* caller is not the creator, the status is Pending, Active or Extended and
\* startTime <= now <= endTime; otherwise it fails with NotFound,
\* Unauthorized or AuctionNotActive, each only when its precondition fails.
C2_PlaceBidIff ==
    \A caller \in Principals, id \in AuctionIds :
        LET err == placeBidRevert(caller, id, TRUE) IN
        /\ (err = OK) <=> C2_Preconditions(caller, id)
        /\ err /= OK => err \in NotFound \cup Unauthorized \cup AuctionNotActive
        /\ err \in NotFound => ~(id < auctionCounter)
        /\ err \in Unauthorized => caller = auctions[id].creator
        /\ err \in AuctionNotActive =>
               ~(auctions[id].status \in BidStatuses /\ InWindow(auctions[id]))

\* C3 as stated: the creator never holds a bid, and every placeBid of the
\* creator fails with 'Creator cannot bid' whatever the status and the time.
C3_CreatorAlwaysUnauthorized ==
    \A id \in ExistingIds :
        LET a == auctions[id] IN
        /\ ~a.hasBid[a.creator]
        /\ a.creator \notin Elements(a.bidders)
        /\ \A proofOk \in BOOLEAN :
               placeBidRevert(a.creator, id, proofOk) = ErrCreatorBid

\* C3 amended: the creator never holds a bid and is never in bidders, and
\* every placeBid of the creator fails: with 'Creator cannot bid' when the
\* status is Pending, Active or Extended and startTime <= now <= endTime,
\* and with an AuctionNotActive reason otherwise.
C3_CreatorNeverBids ==
    \A id \in ExistingIds :
        LET a == auctions[id] IN
        /\ ~a.hasBid[a.creator]
        /\ a.creator \notin Elements(a.bidders)
        /\ \A proofOk \in BOOLEAN :
               placeBidRevert(a.creator, id, proofOk) =
                   IF a.status \in BidStatuses /\ InWindow(a)
                   THEN ErrCreatorBid
                   ELSE auctionActive(a)

\* the creator is refused as creator on an auction others have bid on
C3_Witness ==
    \E id \in ExistingIds :
        /\ auctions[id].totalBids = 2
        /\ placeBidRevert(auctions[id].creator, id, TRUE) = ErrCreatorBid

\* C4: totalBids is the number of accepted placeBid calls (repeat bids
\* count again, setAutoBid calls do not), the length of bidders is the
\* number of distinct principals among them, and totalBids never decreases.
C4_BidCounts ==
    /\ [](\A id \in ExistingIds :
            /\ auctions[id].totalBids = Len(acceptedBids[id])
            /\ Len(auctions[id].bidders) = Cardinality(AcceptedBidders(id)))
    /\ [][\A id \in ExistingIds :
            auctions'[id].totalBids >= auctions[id].totalBids]_vars

\* a repeat bid by one bidder who also stored an auto-bid ceiling
C4_Witness ==
    \E id \in ExistingIds, p \in Principals :
        /\ auctions[id].totalBids = 2
        /\ auctions[id].bidders = <<p>>
        /\ auctions[id].hasAutoBid[p]

C6_ExtensionPolicy ==
    [][\A id \in ExistingIds :
          LET a == auctions[id]
              b == auctions'[id]
          IN  Len(acceptedBids'[id]) = Len(acceptedBids[id]) + 1 =>
                 IF a.endTime - now <= EXTENSION_THRESHOLD /\ a.extensionTime > 0
                 THEN b.endTime = a.endTime + a.extensionTime /\ b.status = EXTENDED
                 ELSE b.endTime = a.endTime]_vars

\* two bids, the first on the Pending auction, each of which extended it
C6_Witness ==
    \E id \in ExistingIds :
        LET a == auctions[id] IN
        /\ a.totalBids = 2
        /\ a.status = EXTENDED
        /\ a.extensionTime = EXTENSION_THRESHOLD
        /\ a.endTime > MaxOf(EndTimes) + a.extensionTime

C8_PendingCanBeEnded ==
    \A id \in ExistingIds :
        LET a == auctions[id] IN
        a.status = PENDING /\ a.totalBids = 0 =>
            /\ endAuctionRevert(a.creator, id) = OK
            /\ endAuctionRevert(owner, id) = OK

StatusChanges(allowed) ==
    \A id \in ExistingIds :
        auctions'[id].status /= auctions[id].status =>
            <<auctions[id].status, auctions'[id].status>> \in allowed

C10_Terminal ==
    /\ [](\A id \in ExistingIds, caller \in Principals, proofOk \in BOOLEAN :
            auctions[id].status \in {ENDED, CANCELLED} =>
                /\ placeBidRevert(caller, id, proofOk) /= OK
                /\ setAutoBidRevert(caller, id, proofOk) /= OK
                /\ endAuctionRevert(caller, id) /= OK)
    /\ [][\A id \in ExistingIds :
            LET a == auctions[id]
                b == auctions'[id]
            IN  a.status \in {ENDED, CANCELLED} =>
                    /\ b.status = a.status
                    /\ b.totalBids = a.totalBids
                    /\ b.endTime = a.endTime
                    /\ b.bidders = a.bidders
                    /\ b.encryptedHighestBid.set = a.encryptedHighestBid.set
                    /\ b.encryptedHighestBid.pt = a.encryptedHighestBid.pt]_vars

\* an ended auction whose result was revealed while bidding time was left
C10_Witness ==
    \E id \in ExistingIds :
        /\ auctions[id].status = ENDED
        /\ auctions[id].encryptedHighestBid.pub
        /\ InWindow(auctions[id])

EffectivelyEnded(a) == a.status = ENDED \/ now > a.endTime

\* C11: revealResults succeeds iff the auction exists, the caller is the
\* owner or the creator, and the stored status is Ended or now > endTime; it
\* fails for a Pending, Active, Extended or Cancelled auction whose endTime
\* has not passed; a successful call makes the highest bid public.
C11_RevealIff ==
    \A caller \in Principals, id \in AuctionIds :
        LET err == revealResultsRevert(caller, id) IN
        /\ (err = OK) <=>
               /\ id < auctionCounter
               /\ caller = owner \/ caller = auctions[id].creator
               /\ EffectivelyEnded(auctions[id])
        /\ id < auctionCounter =>
               LET a == auctions[id] IN
               /\ a.status \in {PENDING, ACTIVE, EXTENDED, CANCELLED}
                      /\ now <= a.endTime => err /= OK
               /\ err = OK => revealResultsEffect(a).encryptedHighestBid.pub

\* a result revealed after endTime passed while the stored status was still
\* Active, at a time when an auction at exactly endTime is not yet revealable
C11_Witness ==
    \E id \in ExistingIds :
        /\ auctions[id].status = ACTIVE
        /\ now > auctions[id].endTime
        /\ auctions[id].encryptedHighestBid.pub

\* C12: revealResults is idempotent and monotonic: wherever a first call
\* succeeds a second one succeeds too and leaves the record exactly as the
\* first left it, a revealed record is a fixed point of the call for the
\* creator and the owner, and no step makes a public highest bid or reserve
\* price non-public or changes the value it encrypts.
C12_RevealIdempotent ==
    /\ [](\A id \in ExistingIds, caller \in Principals :
            LET a == auctions[id]
                once == revealResultsEffect(a)
            IN  /\ revealResultsRevert(caller, id) = OK =>
                       /\ once.encryptedHighestBid.pub
                       /\ revealResultsEffect(once) = once
                /\ a.encryptedHighestBid.pub /\ canManage(caller, a) =>
                       /\ revealResultsRevert(caller, id) = OK
                       /\ once = a)
    /\ [][\A id \in ExistingIds :
            LET a == auctions[id]
                b == auctions'[id]
            IN  /\ a.encryptedHighestBid.pub =>
                       /\ b.encryptedHighestBid.pub
                       /\ b.encryptedHighestBid.pt = a.encryptedHighestBid.pt
                /\ a.encryptedReservePrice.pub =>
                       /\ b.encryptedReservePrice.pub
                       /\ b.encryptedReservePrice.pt = a.encryptedReservePrice.pt]_vars

\* a revealed auction with bids and a reserve price, both public
C12_Witness ==
    \E id \in ExistingIds :
        /\ auctions[id].totalBids > 0
        /\ auctions[id].hasReservePrice
        /\ auctions[id].encryptedHighestBid.pub
        /\ auctions[id].encryptedReservePrice.pub
        /\ revealResultsRevert(auctions[id].creator, id) = OK

\* C14: in every reachable state an auction whose encryptedHighestBid or
\* encryptedReservePrice is publicly decryptable is effectively ended (its
\* stored status is Ended or now > endTime), and placeBid on it fails for
\* every caller: no value is public while a bid could still be accepted.
C14_PublicOnlyWhenEnded ==
    \A id \in ExistingIds :
        LET a == auctions[id] IN
        a.encryptedHighestBid.pub \/ a.encryptedReservePrice.pub =>
            /\ EffectivelyEnded(a)
            /\ \A caller \in Principals : placeBidRevert(caller, id, TRUE) /= OK

\* a bid-less auction with a reserve price, revealed after its endTime
\* passed while its stored status was still Pending
C14_Witness ==
    \E id \in ExistingIds :
        /\ auctions[id].status = PENDING
        /\ now > auctions[id].endTime
        /\ auctions[id].encryptedReservePrice.pub
        /\ auctions[id].encryptedHighestBid.pub

\* C13: the principals allowed to read the current encryptedHighestBid are
\* the contract and the creator, those allowed to read encryptedBids[b] are
\* the contract and b, no stored bid is ever public, and the highest bid
\* becomes public only by a step that is a successful revealResults: no
\* bidder and no owner other than the creator reads another's bid or the
\* running maximum.
C13_ReadPermissions ==
    /\ [](\A id \in ExistingIds :
            LET a == auctions[id] IN
            /\ a.encryptedHighestBid.acl = {This, a.creator}
            /\ \A b \in Principals :
                   /\ a.encryptedBids[b].acl \subseteq {This, b}
                   /\ a.hasBid[b] => a.encryptedBids[b].acl = {This, b}
                   /\ ~a.encryptedBids[b].pub)
    /\ [][\A id \in ExistingIds :
            ~auctions[id].encryptedHighestBid.pub
                /\ auctions'[id].encryptedHighestBid.pub =>
                    /\ \E caller \in Principals : revealResultsRevert(caller, id) = OK
                    /\ auctions'[id] = revealResultsEffect(auctions[id])]_vars

\* two bidders who are neither creator nor contract have bid, nothing is
\* revealed
C13_Witness ==
    \E id \in ExistingIds :
        /\ Cardinality(AcceptedBidders(id)) = 2
        /\ auctions[id].creator = owner
        /\ ~auctions[id].encryptedHighestBid.pub
        /\ \A b \in AcceptedBidders(id) :
               b \notin auctions[id].encryptedHighestBid.acl

\* start and end times createAuction is called with in C15
C15_Times == {1, 302}

\* the four stated conditions of createAuction
C15_Conditions(caller, start, end, increment) ==
    /\ caller = owner \/ caller \in auctioneers
    /\ start < end
    /\ end > now
    /\ increment > 0

C16_SequentialIds ==
    /\ [](/\ getTotalAuctions = Cardinality(DOMAIN auctions)
          /\ getTotalAuctions = Cardinality(DOMAIN acceptedBids)
          /\ DOMAIN auctions = 0..(auctionCounter - 1)
          /\ \A caller \in Principals, ext \in ExtensionTimes, hasReserve \in BOOLEAN :
                 LET a == initializeAuction(caller, "title", "ENGLISH", 1, 302, 1,
                                            ext, hasReserve, 1)
                 IN  /\ a.creator = caller
                     /\ a.status = PENDING
                     /\ a.totalBids = 0
                     /\ a.bidders = <<>>
                     /\ a.encryptedHighestBid.set
                     /\ a.encryptedHighestBid.pt = 0)
    /\ [][/\ auctionCounter' >= auctionCounter
          /\ auctionCounter' /= auctionCounter =>
                LET a == auctions'[auctionCounter] IN
                /\ auctionCounter' = auctionCounter + 1
                /\ DOMAIN auctions' = 0..auctionCounter
                /\ \A i \in DOMAIN auctions : auctions'[i] = auctions[i]
                /\ a.status = PENDING
                /\ a.totalBids = 0
                /\ a.bidders = <<>>
                /\ a.creator = owner \/ a.creator \in auctioneers
                /\ a.encryptedHighestBid.pt = 0]_vars

\* a second auction, created by somebody else after the first received a bid
C16_Witness ==
    /\ getTotalAuctions = 2
    /\ auctions[0].totalBids > 0
    /\ auctions[1].totalBids = 0
    /\ auctions[1].status = PENDING
    /\ auctions[0].creator /= auctions[1].creator

\* C17: createAuction (with otherwise valid arguments) succeeds exactly for
\* the owner and for the current members of the auctioneer set and fails
\* with 'Only authorized auctioneers' for everybody else: the owner stays
\* permitted when removed from the set, a removed principal is refused, and
\* every record is created by a caller permitted at that moment.
C17_CreatePermission ==
    /\ [](\A caller \in Principals :
            LET err == createAuctionRevert(caller, now, now + 1, 1, FALSE, TRUE) IN
            /\ (err = OK) <=> (caller = owner \/ caller \in auctioneers)
            /\ err /= OK => err = ErrOnlyAuctioneer
            /\ createAuctionRevert(owner, now, now + 1, 1, FALSE, TRUE) = OK)
    /\ [][auctionCounter' /= auctionCounter =>
              LET creator == auctions'[auctionCounter].creator IN
              creator = owner \/ creator \in auctioneers]_vars

\* the owner was removed from the set, and so was an auctioneer who had
\* created an auction before
C17_Witness ==
    /\ owner \notin auctioneers
    /\ "alice" \notin auctioneers
    /\ \E id \in ExistingIds : auctions[id].creator = "alice"
    /\ createAuctionRevert("alice", now, now + 1, 1, FALSE, TRUE) = ErrOnlyAuctioneer

\* C19: setAuctioneer succeeds iff the caller is the owner, setPlatformFee
\* iff the caller is the owner and the fee is at most 1000 (a larger fee is
\* refused with 'Fee cannot exceed 10%', another caller with 'Only owner');
\* platformFeePercent <= 1000 in every reachable state and the owner is the
\* deployer for ever.
C19_AdminGuard ==
    /\ platformFeePercent <= MaxPlatformFee
    /\ owner = Deployer
    /\ \A caller \in Principals :
           /\ (setAuctioneerRevert(caller) = OK) <=> caller = owner
           /\ caller /= owner => setAuctioneerRevert(caller) = ErrOnlyOwner
           /\ \A feePercent \in AdminFeeInputs \cup FeeInputs :
                  LET err == setPlatformFeeRevert(caller, feePercent) IN
                  /\ (err = OK) <=> (caller = owner /\ feePercent <= 1000)
                  /\ caller /= owner => err = ErrOnlyOwner
                  /\ caller = owner /\ feePercent > 1000 => err = ErrFee

\* the owner raised the fee to the limit and added an auctioneer
C19_Witness ==
    /\ platformFeePercent = MaxPlatformFee
    /\ auctioneers = {"owner", "alice"}
    /\ setPlatformFeeRevert(owner, MaxPlatformFee + 1) = ErrFee

\* C18 as stated: endAuction, cancelAuction and revealResults each fail with
\* 'Not authorized' for every caller that is neither owner nor creator, in
\* every auction state.
C18_NotAuthorizedInEveryState ==
    \A id \in ExistingIds, caller \in Principals :
        ~(caller = owner \/ caller = auctions[id].creator) =>
            /\ endAuctionRevert(caller, id) = ErrNotAuthorized
            /\ cancelAuctionRevert(caller, id) = ErrNotAuthorized
            /\ revealResultsRevert(caller, id) = ErrNotAuthorized

\* C18 amended: for a caller that is neither owner nor creator, auctioneer
\* or not, endAuction and cancelAuction fail with 'Not authorized' in every
\* state, and revealResults fails in every state, with 'Not authorized' when
\* the auction is effectively ended and with 'Auction not finished'
\* otherwise; the owner and the creator, auctioneer or not, never get an
\* Unauthorized failure from the three functions: they end an Active or
\* Extended auction, cancel a bid-less one that is not Ended and reveal an
\* effectively ended one.
C18_ManageGuard ==
    \A id \in ExistingIds, caller \in Principals :
        LET a == auctions[id]
            endErr == endAuctionRevert(caller, id)
            cancelErr == cancelAuctionRevert(caller, id)
            revealErr == revealResultsRevert(caller, id)
        IN  IF caller = owner \/ caller = a.creator
            THEN /\ (endErr = OK) <=> a.status \in {ACTIVE, EXTENDED}
                 /\ (cancelErr = OK) <=> (a.totalBids = 0 /\ a.status /= ENDED)
                 /\ (revealErr = OK) <=> EffectivelyEnded(a)
                 /\ {endErr, cancelErr, revealErr} \cap Unauthorized = {}
            ELSE /\ endErr = ErrNotAuthorized
                 /\ cancelErr = ErrNotAuthorized
                 /\ revealErr = IF EffectivelyEnded(a) THEN ErrNotAuthorized
                                ELSE ErrNotFinished

\* a creator whose auctioneer role was revoked can end their running auction,
\* which an outsider is refused to reveal for a reason other than authority
C18_Witness ==
    \E id \in ExistingIds :
        LET a == auctions[id] IN
        /\ a.creator /= owner
        /\ a.creator \notin auctioneers
        /\ endAuctionRevert(a.creator, id) = OK
        /\ \E caller \in Principals \ {owner, a.creator} :
               revealResultsRevert(caller, id) = ErrNotFinished

\* C20: setAutoBid has the timing precondition of placeBid: whenever
\* now < startTime or now > endTime it fails with AuctionNotActive for every
\* caller, and no ceiling is stored for a time outside the window.
C20_AutoBidTiming ==
    \A id \in ExistingIds, caller \in Principals :
        LET a == auctions[id] IN
        now < a.startTime \/ now > a.endTime =>
            setAutoBidRevert(caller, id, TRUE) \in AuctionNotActive

\* C21: setAutoBid (valid proof) by a non-creator inside the bidding window
\* is accepted in the stored statuses Pending, Active and Extended and
\* rejected in Ended and Cancelled.
C21_AutoBidStatuses ==
    \A id \in ExistingIds, caller \in Principals :
        LET a == auctions[id] IN
        caller /= a.creator /\ InWindow(a) =>
            /\ a.status \in {PENDING, ACTIVE, EXTENDED} =>
                   setAutoBidRevert(caller, id, TRUE) = OK
            /\ a.status \in {ENDED, CANCELLED} =>
                   setAutoBidRevert(caller, id, TRUE) /= OK

C23_CreatorNoAutoBid ==
    \A id \in ExistingIds :
        LET a == auctions[id] IN
        /\ \A proofOk \in BOOLEAN :
               setAutoBidRevert(a.creator, id, proofOk) = ErrCreatorBid
        /\ ~a.hasAutoBid[a.creator]
        /\ a.encryptedMaxAutoBid[a.creator] = NullHandle

\* an ended auction past its endTime whose creator is refused as a bidder,
\* while another principal holds a ceiling
C23_Witness ==
    \E id \in ExistingIds, p \in Principals :
        LET a == auctions[id] IN
        /\ a.status = ENDED
        /\ now > a.endTime
        /\ a.hasAutoBid[p]
        /\ setAutoBidRevert(a.creator, id, TRUE) = ErrCreatorBid
        /\ setAutoBidRevert(p, id, TRUE) = ErrAutoBidEnded

\* C24: for every existing auction isAuctionEnded is true exactly when the
\* stored status is Ended or Cancelled or now > endTime: past endTime it is
\* true whatever the status, and at now = endTime (and before) with status
\* Pending, Active or Extended it is false.
C24_IsAuctionEnded ==
    \A id \in ExistingIds :
        LET a == auctions[id] IN
        /\ isAuctionEnded(id) <=> (a.status \in {ENDED, CANCELLED} \/ now > a.endTime)
        /\ now > a.endTime => isAuctionEnded(id)
        /\ now <= a.endTime /\ a.status \in BidStatuses => ~isAuctionEnded(id)

\* an Active auction at the instant of its endTime, still open for bids
C24_Witness ==
    \E id \in ExistingIds :
        /\ auctions[id].status = ACTIVE
        /\ now = auctions[id].endTime
        /\ ~isAuctionEnded(id)
        /\ \E caller \in Principals : placeBidRevert(caller, id, TRUE) = OK

\* C25: a step in which the time advances changes no stored field, and a
\* stored status changes only at an unchanged time by a successful placeBid
\* (to Active or Extended, with one more accepted bid), endAuction (to
\* Ended) or cancelAuction (to Cancelled); a Pending auction leaves Pending
\* for Active only with its first accepted bid.
C25_NoTimer ==
    /\ [][now' /= now => storage' = storage /\ acceptedBids' = acceptedBids]_vars
    /\ [][\A id \in ExistingIds :
            LET a == auctions[id]
                b == auctions'[id]
            IN  b.status /= a.status =>
                    /\ now' = now
                    /\ \/ /\ b.status \in {ACTIVE, EXTENDED}
                          /\ Len(acceptedBids'[id]) = Len(acceptedBids[id]) + 1
                          /\ b.totalBids = a.totalBids + 1
                       \/ /\ b.status = ENDED
                          /\ \E caller \in Principals : endAuctionRevert(caller, id) = OK
                          /\ b = endAuctionEffect(a)
                       \/ /\ b.status = CANCELLED
                          /\ \E caller \in Principals : cancelAuctionRevert(caller, id) = OK
                          /\ b = cancelAuctionEffect(a)
                    /\ a.status = PENDING /\ b.status = ACTIVE =>
                           a.totalBids = 0 /\ b.totalBids = 1]_vars

\* an auction left Active after its endTime passed, with nothing revealed
C25_Witness ==
    \E id \in ExistingIds :
        /\ auctions[id].status = ACTIVE
        /\ now > auctions[id].endTime
        /\ ~auctions[id].encryptedHighestBid.pub
        /\ isAuctionEnded(id)

C27_Independence ==
    [][\A i \in ExistingIds, j \in ExistingIds :
          i /= j /\ auctions'[i] /= auctions[i] =>
              /\ auctions'[j] = auctions[j]
              /\ acceptedBids'[j] = acceptedBids[j]
              /\ \A caller \in Principals :
                     /\ \A proofOk \in BOOLEAN :
                            /\ (placeBidRevert(caller, j, proofOk))'
                                   = placeBidRevert(caller, j, proofOk)
                            /\ (setAutoBidRevert(caller, j, proofOk))'
                                   = setAutoBidRevert(caller, j, proofOk)
                     /\ (endAuctionRevert(caller, j))' = endAuctionRevert(caller, j)
                     /\ (cancelAuctionRevert(caller, j))' = cancelAuctionRevert(caller, j)
                     /\ (revealResultsRevert(caller, j))' = revealResultsRevert(caller, j)]_vars

\* two auctions in different conditions: one ended and revealed, the other
\* running with a bid and a ceiling
C27_Witness ==
    \E i \in ExistingIds, j \in ExistingIds :
        /\ i /= j
        /\ auctions[i].status = ENDED
        /\ auctions[i].encryptedHighestBid.pub
        /\ auctions[j].status = ACTIVE
        /\ auctions[j].totalBids = 1
        /\ \E p \in Principals : auctions[j].hasAutoBid[p]

\* C28: startTime < endTime for every auction in every reachable state;
\* endTime never decreases and changes only in a step that accepts a bid
\* meeting the extension policy, by exactly extensionTime; title,
\* description, itemImageUrl, creator, auctionType, startTime,
\* minimumBidIncrement, extensionTime and hasReservePrice never change.
C28_TimesAndImmutables ==
    /\ [](\A id \in ExistingIds : auctions[id].startTime < auctions[id].endTime)
    /\ [][\A id \in ExistingIds :
            LET a == auctions[id]
                b == auctions'[id]
            IN  /\ b.endTime >= a.endTime
                /\ b.endTime /= a.endTime =>
                       /\ Len(acceptedBids'[id]) = Len(acceptedBids[id]) + 1
                       /\ a.endTime - now <= EXTENSION_THRESHOLD
                       /\ a.extensionTime > 0
                       /\ b.endTime = a.endTime + a.extensionTime
                /\ <<b.title, b.description, b.itemImageUrl, b.creator, b.auctionType,
                     b.startTime, b.minimumBidIncrement, b.extensionTime,
                     b.hasReservePrice>>
                   = <<a.title, a.description, a.itemImageUrl, a.creator, a.auctionType,
                       a.startTime, a.minimumBidIncrement, a.extensionTime,
                       a.hasReservePrice>>]_vars

\* an auction with two accepted bids of which exactly one extended it
C28_Witness ==
    \E id \in ExistingIds :
        LET a == auctions[id] IN
        /\ a.totalBids = 2
        /\ a.extensionTime > 0
        /\ a.endTime = MaxOf(EndTimes) + a.extensionTime
        /\ a.startTime < a.endTime

\* the bidders of a bid history in the order of their first bids
RECURSIVE FirstBidOrder(_)
FirstBidOrder(history) ==
    IF history = <<>> THEN <<>>
    ELSE LET earlier == FirstBidOrder(SubSeq(history, 1, Len(history) - 1))
             last == history[Len(history)].bidder
         IN  IF last \in Elements(earlier) THEN earlier ELSE Append(earlier, last)

\* C29: a principal is in bidders iff hasBid[principal]; bidders has no
\* duplicates and lists the bidders in the order of their first accepted
\* bids; a repeat bid neither appends nor reorders.
C29_BiddersList ==
    /\ [](\A id \in ExistingIds :
            LET a == auctions[id] IN
            /\ \A p \in Principals : p \in Elements(a.bidders) <=> a.hasBid[p]
            /\ Cardinality(Elements(a.bidders)) = Len(a.bidders)
            /\ a.bidders = FirstBidOrder(acceptedBids[id]))
    /\ [][\A id \in ExistingIds :
            LET a == auctions[id]
                b == auctions'[id]
            IN  /\ SubSeq(b.bidders, 1, Len(a.bidders)) = a.bidders
                /\ (/\ Len(acceptedBids'[id]) = Len(acceptedBids[id]) + 1
                    /\ a.hasBid[acceptedBids'[id][Len(acceptedBids'[id])].bidder])
                   => b.bidders = a.bidders]_vars

\* alice bids 1.0, bob 1.5, alice 1.2; the auction is ended and revealed
C29_Witness ==
    \E id \in ExistingIds :
        LET a == auctions[id] IN
        /\ acceptedBids[id] = <<[bidder |-> "alice", amount |-> 10],
                                [bidder |-> "bob", amount |-> 15],
                                [bidder |-> "alice", amount |-> 12]>>
        /\ a.bidders = <<"alice", "bob">>
        /\ a.totalBids = 3
        /\ a.status = ENDED
        /\ a.encryptedHighestBid.pub
        /\ a.encryptedHighestBid.pt = 15

\* C30 as stated: every operation that takes an auction id, the read
\* functions included, fails with 'Auction does not exist' when the id is
\* not below auctionCounter.
C30_EveryIdOperationNotFound ==
    \A id \in MultiAuctionIds :
        ~(id < auctionCounter) =>
            /\ \A caller \in Principals :
                   /\ placeBidRevert(caller, id, TRUE) = ErrNoAuction
                   /\ setAutoBidRevert(caller, id, TRUE) = ErrNoAuction
                   /\ endAuctionRevert(caller, id) = ErrNoAuction
                   /\ cancelAuctionRevert(caller, id) = ErrNoAuction
                   /\ revealResultsRevert(caller, id) = ErrNoAuction
            /\ getterRevert(id) = ErrNoAuction
            /\ auctionsAccessorRevert(id) = ErrNoAuction

\* C30 amended: placeBid, setAutoBid, endAuction, cancelAuction,
\* revealResults and the declared view functions fail with 'Auction does
\* not exist' when the id is not below auctionCounter, whoever calls and
\* whatever the proof (so before any other check); the records are exactly
\* those of the ids below auctionCounter and a record appears only at id
\* auctionCounter as the counter is incremented.  The generated accessor
\* auctions(id) does not fail for such an id: it returns the unwritten
\* record.
C30_NotFoundFirst ==
    /\ [](/\ DOMAIN auctions = 0..(auctionCounter - 1)
          /\ \A id \in MultiAuctionIds :
                ~(id < auctionCounter) =>
                    /\ \A caller \in Principals, proofOk \in BOOLEAN :
                           /\ placeBidRevert(caller, id, proofOk) = ErrNoAuction
                           /\ setAutoBidRevert(caller, id, proofOk) = ErrNoAuction
                           /\ endAuctionRevert(caller, id) = ErrNoAuction
                           /\ cancelAuctionRevert(caller, id) = ErrNoAuction
                           /\ revealResultsRevert(caller, id) = ErrNoAuction
                    /\ getterRevert(id) = ErrNoAuction
                    /\ auctionsAccessorRevert(id) = OK
                    /\ auctionsAccessor(id)
                           = [f \in AccessorFields |-> UnwrittenAuction[f]])
    /\ [][DOMAIN auctions' /= DOMAIN auctions =>
              /\ auctionCounter' = auctionCounter + 1
              /\ DOMAIN auctions' = DOMAIN auctions \cup {auctionCounter}]_vars

\* a registry of one auction with a bid, where the same bid addressed to
\* the next id is refused as addressed to no auction
C30_Witness ==
    /\ auctionCounter = 1
    /\ auctions[0].totalBids = 1
    /\ \E caller \in Principals :
           /\ placeBidRevert(caller, 0, TRUE) = OK
           /\ placeBidRevert(caller, 1, TRUE) = ErrNoAuction
           /\ getterRevert(0) = OK
           /\ getterRevert(1) = ErrNoAuction

\* C31: encryptedReservePrice is set iff hasReservePrice; its value and its
\* read permissions are written at creation and never afterwards; a
\* successful revealResults always makes encryptedHighestBid publicly
\* decryptable and makes encryptedReservePrice publicly decryptable iff
\* hasReservePrice, and nothing else publishes either.
C31_ReservePrice ==
    /\ [](\A id \in ExistingIds :
            LET a == auctions[id]
                r == revealResultsEffect(a)
            IN  /\ a.encryptedReservePrice.set <=> a.hasReservePrice
                /\ a.encryptedReservePrice.pub
                       <=> (a.hasReservePrice /\ a.encryptedHighestBid.pub)
                /\ r.encryptedHighestBid.pub
                /\ r.encryptedReservePrice.pub <=> a.hasReservePrice)
    /\ [][\A id \in ExistingIds :
            LET a == auctions[id]
                b == auctions'[id]
            IN  /\ b.encryptedReservePrice.set = a.encryptedReservePrice.set
                /\ b.encryptedReservePrice.pt = a.encryptedReservePrice.pt
                /\ b.encryptedReservePrice.acl = a.encryptedReservePrice.acl
                /\ b.encryptedReservePrice.pub /= a.encryptedReservePrice.pub
                       => /\ \E caller \in Principals :
                                 revealResultsRevert(caller, id) = OK
                          /\ b = revealResultsEffect(a)]_vars

\* a revealed auction with a reserve price, that received a bid before it
\* was ended
C31_Witness ==
    \E id \in ExistingIds :
        LET a == auctions[id] IN
        /\ a.hasReservePrice
        /\ a.encryptedReservePrice.set
        /\ a.encryptedReservePrice.pub
        /\ a.encryptedHighestBid.pub
        /\ a.totalBids = 1
        /\ a.status = ENDED

\* C32 as stated: once an auction has ended (stored status Ended, or the
\* clock past endTime), the on-chain step of the client's revealResults is
\* never refused with 'Not authorized', whoever the connected user is.
C32_ViewResultsNeverRefused ==
    \A id \in ExistingIds, user \in Principals :
        (auctions[id].status = ENDED \/ now > auctions[id].endTime) =>
            hookRevealResultsRevert(user, id) /= ErrNotAuthorized

C34_RevealIsFinal ==
    /\ [](\A id \in ExistingIds :
            auctions[id].encryptedHighestBid.pub =>
                /\ \A caller \in Principals, proofOk \in BOOLEAN :
                       placeBidRevert(caller, id, proofOk) /= OK
                /\ auctions[id].encryptedHighestBid.pt
                       = MaxOf({0} \cup AcceptedAmounts(id)))
    /\ [][\A id \in ExistingIds :
            auctions[id].encryptedHighestBid.pub =>
                /\ auctions'[id].endTime = auctions[id].endTime
                /\ auctions'[id].encryptedHighestBid = auctions[id].encryptedHighestBid
                /\ auctions'[id].totalBids = auctions[id].totalBids
                /\ acceptedBids'[id] = acceptedBids[id]]_vars

\* an auction revealed after its end time passed while its stored status is
\* still Active: the bid of a bidder is refused for the time only
C34_Witness ==
    \E id \in ExistingIds, caller \in Principals :
        /\ auctions[id].encryptedHighestBid.pub
        /\ auctions[id].status = ACTIVE
        /\ auctions[id].totalBids = 1
        /\ placeBidRevert(caller, id, TRUE) = ErrEnded

\* C35: for an auction created with extensionTime = 0 the extension policy
\* never applies: no step changes its endTime and its status is never
\* Extended, also for a bid accepted at the very instant endTime.
C35_NoExtensionTime ==
    /\ [](\A id \in ExistingIds :
            LET a == auctions[id] IN
            a.extensionTime = 0 =>
                /\ a.status /= EXTENDED
                /\ ~shouldExtend(a)
                /\ \A caller \in Principals, amount \in Amounts :
                       /\ placeBidEffect(a, caller, amount).endTime = a.endTime
                       /\ placeBidEffect(a, caller, amount).status /= EXTENDED)
    /\ [][\A id \in ExistingIds :
            auctions[id].extensionTime = 0 =>
                /\ auctions'[id].endTime = auctions[id].endTime
                /\ auctions'[id].status /= EXTENDED]_vars

\* an auction without extension, with a bid, at the instant endTime, where a
\* further bid is accepted
C35_Witness ==
    \E id \in ExistingIds, caller \in Principals :
        /\ auctions[id].extensionTime = 0
        /\ auctions[id].totalBids = 1
        /\ auctions[id].status = ACTIVE
        /\ now = auctions[id].endTime
        /\ placeBidRevert(caller, id, TRUE) = OK

C37_HighestBidHasHolder ==
    \A id \in ExistingIds :
        LET a == auctions[id] IN
        a.totalBids > 0 =>
            \E p \in Elements(a.bidders) :
                a.encryptedBids[p].pt = a.encryptedHighestBid.pt

\* C38: no operation writes currentHighestBidder: it is the zero address in
\* every reachable state, whatever bids were placed, and the AuctionEnded
\* event of every endAuction carries the zero address as winner and 0 as
\* winning bid.
C38_NoWinnerRecorded ==
    /\ [](\A id \in ExistingIds :
            LET a == auctions[id] IN
            /\ a.currentHighestBidder = ZeroAddress
            /\ endAuctionEvents(a, id) = <<AuctionEnded(id, ZeroAddress, 0)>>)
    /\ [][\A id \in ExistingIds :
            auctions'[id].currentHighestBidder = auctions[id].currentHighestBidder]_vars

\* an auction ended after two bidders bid, the highest bid being positive
C38_Witness ==
    \E id \in ExistingIds :
        LET a == auctions[id] IN
        /\ a.status = ENDED
        /\ Len(a.bidders) = 2
        /\ a.encryptedHighestBid.pt > 0
        /\ a.currentHighestBidder = ZeroAddress

\* C39 as stated: whenever AuctionCard, rendered with the current record
\* and the current time, offers 'Place Bid' to a user, the status and time
\* requirements of placeBid hold and the user is not the creator, and the
\* card's own isEnded is false.
C39_CardOffersAcceptableBids ==
    \A id \in ExistingIds, user \in Principals :
        LET a == auctions[id] IN
        cardCanBid(a, user) =>
            /\ auctionActive(a) = OK
            /\ canBid(user, a)
            /\ ~isEnded(a)

\* C40: per hook instance at most one placeBid, one createAuction and one
\* loadAuctions is running; each in-flight flag is set exactly while a call
\* of its function is running, so a call made meanwhile returns at once
\* (no call starts while the flag is set) and the flag is cleared when the
\* running call ends, by success or by a throw.
C40_OneInFlight ==
    /\ [](/\ Len(bidCalls) <= 1
          /\ Len(createCalls) <= 1
          /\ Len(loadCalls) <= 1
          /\ isBiddingRef <=> bidCalls /= <<>>
          /\ isCreatingRef <=> createCalls /= <<>>
          /\ isLoadingRef <=> loadCalls /= <<>>
          /\ hookPlaceBidReturns <=> bidCalls /= <<>>
          /\ hookCreateReturns <=> createCalls /= <<>>
          /\ hookLoadReturns <=> loadCalls /= <<>>)
    /\ [][/\ Len(bidCalls') > Len(bidCalls) => ~isBiddingRef /\ isBiddingRef'
          /\ Len(createCalls') > Len(createCalls) => ~isCreatingRef /\ isCreatingRef'
          /\ Len(loadCalls') > Len(loadCalls) => ~isLoadingRef /\ isLoadingRef'
          /\ Len(bidCalls') < Len(bidCalls) => ~isBiddingRef'
          /\ Len(createCalls') < Len(createCalls) => ~isCreatingRef'
          /\ Len(loadCalls') < Len(loadCalls) => ~isLoadingRef'
          /\ (\E id \in ExistingIds : acceptedBids'[id] /= acceptedBids[id])
                => bidCalls = <<[bidCalls'[1] EXCEPT !.pc = "submit"]>>]_allVars

\* the connected account created the auction through the hook and now has
\* a bid on it at the point of submission, which the contract will refuse,
\* while a reload is running
C40_Witness ==
    /\ bidCalls = <<[pc |-> "submit", auctionId |-> 0, bidAmount |-> 1]>>
    /\ isBiddingRef
    /\ auctionExists(0)
    /\ auctions[0].creator = ethersSigner
    /\ placeBidRevert(ethersSigner, 0, TRUE) = ErrCreatorBid
    /\ isLoadingRef
    /\ ~isCreatingRef

=============================================================================
